---- MODULE Spec2Model ----
(***************************************************************************)
(* A model of vk_generator: the function-pointer loader emitted by the     *)
(* struct prelude (vk_struct_bindings!), the interned string arena and the *)
(* builder operations of the registry.                                     *)
(***************************************************************************)
EXTENDS Integers, Sequences, FiniteSets, TLC

(***************************************************************************)
(* Bounds of the model.                                                    *)
(***************************************************************************)
\* number of commands handed to vk_struct_bindings!
NumCmds == 2
\* longest registry XML (in bytes) an arena is sized from
MaxXmlLen == 3
\* longest string handed to append_str
MaxStrLen == 2
\* number of append_str calls followed
MaxInterns == 3
\* longest parameter list of a command handed to push_command
MaxParams == 3
\* longest core-constants list followed
MaxConsts == 2
\* longest type list of the lib.rs registry followed
MaxLibTypes == 2

(***************************************************************************)
(* Part 1.  The loader: prelude_struct_gen.rs, vk_struct_bindings!         *)
(***************************************************************************)
VARIABLES
    vk,          \* Vk: one FnPtr.fn_ptr per command
    built,       \* a Vk value exists (Vk::load_with has returned)
    op,          \* the operation that ran last
    load_fn,     \* the resolver handed to the last load (name -> pointer)
    result,      \* what the last reload_fns returned
    vk_pre,      \* the slots right before the last operation
    prev,        \* op and result of the operation before the last one
    same_fn,     \* the last resolver is the one of the load before it
    ever_loaded, \* commands some resolver has answered with a non-null pointer
    called       \* address the last dispatch jumped to

loader_vars == <<vk, built, op, load_fn, result, vk_pre, prev, same_fn,
                 ever_loaded, called>>

VARIABLES
    string_buffer, \* VkRegistry.string_buffer: allocation, contents, capacity
    vk_xml_len,    \* length of the XML the registry was created from
    views,         \* the views append_str has returned, in order
    arena_op,      \* the last arena operation, its argument and the state before it
    panicked       \* a panic! has been raised: the generator aborts

arena_vars == <<string_buffer, vk_xml_len, views, arena_op>>

VARIABLES
    types,       \* VkRegistry.types: HashMap<&str, VkType>, as its entries
    core_consts, \* VkRegistry.core_consts: Vec<&str>
    commands,    \* VkRegistry.commands: HashMap<&str, VkCommand>
    features,    \* VkRegistry.features: HashMap<VkVersion, VkFeature>
    extns,       \* VkRegistry.extns: HashMap<&str, VkExtn>
    lib_types,   \* lib.rs VkRegistry.types: Vec<VkType>
    reg_op,      \* the last push: its name, argument, result, collections before
    api_consts   \* names of the ApiConst types handed to push_type, in order

reg_collections == <<types, core_consts, commands, features, extns, lib_types>>

reg_vars == <<types, core_consts, commands, features, extns, lib_types, reg_op,
              api_consts>>

VARIABLES
    el,          \* a VkElType: the type of a member, parameter or return value
    el_op        \* the last operation on el, its argument and el before it

elem_vars == <<el, el_op>>

VARIABLES
    member,      \* field_name of a registry/mod.rs VkMember
    lib_member,  \* field_name of a lib.rs VkMember
    member_op    \* the last set_name: argument, outcome and the names before it

member_vars == <<member, lib_member, member_op>>

VARIABLES
    all_flags,   \* $all of a vk_bitflags_wrapped! type
    lhs,         \* a value of the wrapped type
    rhs,         \* a second value of the wrapped type
    flag_op      \* the last operator applied, and lhs before it

flag_vars == <<all_flags, lhs, rhs, flag_op>>

VARIABLES
    packed,     \* the last value vk_make_version! has built
    version_in,  \* the major, minor and patch it was built from
    version_out  \* what vk_version_major!, _minor! and _patch! read from it

version_vars == <<packed, version_in, version_out>>

item_vars == <<elem_vars, member_vars, flag_vars, version_vars>>

vars == <<loader_vars, arena_vars, reg_vars, item_vars, panicked>>

\* The commands in the order the macro receives them; a command stands for
\* its $raw_name.
Cmds == 1..NumCmds

\* ptr::null()
Null == "null"
\* unloaded_function_panic as *const ()
unloaded_function_panic == "unloaded_function_panic"
\* addresses of real Vulkan entry points a resolver can hand out
FnAddrs == {"f1", "f2"}
\* what a resolver returns: a function pointer or null
ResolverPtrs == FnAddrs \cup {Null}
\* what a *const () read from memory can be
Ptrs == ResolverPtrs \cup {unloaded_function_panic}

Resolvers == [Cmds -> ResolverPtrs]

Ok == [tag |-> "Ok", unloaded |-> <<>>]
Err(unloaded_fns) == [tag |-> "Err", unloaded |-> unloaded_fns]
NoResult == [tag |-> "None", unloaded |-> <<>>]

\* FnPtr::is_loaded
is_loaded(fn_ptr) == fn_ptr # unloaded_function_panic

\* mem::uninitialized(): the fields hold whatever the memory held
uninitialized == [Cmds -> Ptrs]

\* Vk::load_with, one repetition: the slot is assigned only on non-null
load_slot(garbage, fn_buf) == IF Null # fn_buf THEN fn_buf ELSE garbage

\* Vk::load_with
load_with(garbage, f) == [c \in Cmds |-> load_slot(garbage[c], f[c])]

\* variant: the slot is assigned whatever the resolver returned
reload_slot_always(old, fn_buf) == fn_buf

\* variant: a null answer puts the sentinel back into the slot
reload_slot_reset(old, fn_buf) ==
    IF Null # fn_buf THEN fn_buf ELSE unloaded_function_panic

\* Vk::reload_fns, one repetition, the slot: assigned only on non-null
reload_slot(old, fn_buf) == IF Null # fn_buf THEN fn_buf ELSE old

\* variant: the slot is tested whatever the resolver returned
reports_unloaded_pre(old, fn_buf) == old # unloaded_function_panic

\* Vk::reload_fns, one repetition, the list: the `else if` of line 52, read as
\* the fn_ptr of the slot $name
reports_unloaded(old, fn_buf) ==
    ~(Null # fn_buf) /\ old # unloaded_function_panic

RECURSIVE reload_loop(_, _, _, _)
\* Vk::reload_fns, the $( ... )+ repetition from command i on
reload_loop(i, slots, f, unloaded_fns) ==
    IF i > NumCmds THEN [vk |-> slots, unloaded_fns |-> unloaded_fns]
    ELSE reload_loop(i + 1,
                     [slots EXCEPT ![i] = reload_slot(slots[i], f[i])],
                     f,
                     IF reports_unloaded(slots[i], f[i])
                         THEN Append(unloaded_fns, i) ELSE unloaded_fns)

\* Vk::reload_fns
reload_fns(slots, f) ==
    LET r == reload_loop(1, slots, f, <<>>) IN
    [vk  |-> r.vk,
     ret |-> IF 0 = Len(r.unloaded_fns) THEN Ok ELSE Err(r.unloaded_fns)]

\* Vk::$name: transmute the slot and call it
dispatch(slots, c) == slots[c]

LoaderInit ==
    /\ vk = [c \in Cmds |-> Null]
    /\ built = FALSE
    /\ op = "none"
    /\ load_fn = [c \in Cmds |-> Null]
    /\ result = NoResult
    /\ vk_pre = [c \in Cmds |-> Null]
    /\ prev = [op |-> "none", result |-> NoResult]
    /\ same_fn = FALSE
    /\ ever_loaded = {}
    /\ called = Null

\* let vk = Vk::load_with(f)
LoadWith(f) ==
    /\ ~built
    /\ ~panicked
    /\ \E garbage \in uninitialized : vk' = load_with(garbage, f)
    /\ built' = TRUE
    /\ op' = "load_with"
    /\ load_fn' = f
    /\ result' = NoResult
    /\ vk_pre' = vk
    /\ prev' = [op |-> op, result |-> result]
    /\ same_fn' = FALSE
    /\ ever_loaded' = {c \in Cmds : f[c] # Null}
    /\ called' = called
    /\ UNCHANGED <<arena_vars, reg_vars, item_vars, panicked>>

\* vk.reload_fns(f)
ReloadFns(f) ==
    /\ built
    /\ ~panicked
    /\ LET r == reload_fns(vk, f) IN
        /\ vk' = r.vk
        /\ result' = r.ret
    /\ op' = "reload_fns"
    /\ load_fn' = f
    /\ vk_pre' = vk
    /\ prev' = [op |-> op, result |-> result]
    /\ same_fn' = (f = load_fn)
    /\ ever_loaded' = ever_loaded \cup {c \in Cmds : f[c] # Null}
    /\ UNCHANGED <<built, called>>
    /\ UNCHANGED <<arena_vars, reg_vars, item_vars, panicked>>

\* vk.$name(...): the call jumps to the address in the slot; at the sentinel
\* that is unloaded_function_panic, which panics
Call(c) ==
    /\ built
    /\ ~panicked
    /\ panicked' = (dispatch(vk, c) = unloaded_function_panic)
    /\ called' = dispatch(vk, c)
    /\ op' = "call"
    /\ vk_pre' = vk
    /\ prev' = [op |-> op, result |-> result]
    /\ same_fn' = FALSE
    /\ UNCHANGED <<vk, built, load_fn, result, ever_loaded>>
    /\ UNCHANGED <<arena_vars, reg_vars, item_vars>>

LoaderNext ==
    \/ \E f \in Resolvers : LoadWith(f)
    \/ \E f \in Resolvers : ReloadFns(f)
    \/ \E c \in Cmds : Call(c)

(***************************************************************************)
(* Part 2.  The string arena: VkRegistry.string_buffer and append_str, in  *)
(* registry/mod.rs and in lib.rs.                                          *)
(***************************************************************************)
Max(a, b) == IF a > b THEN a ELSE b

\* the bytes of the strings handed to append_str
Bytes == {"a", "b"}
\* '\0'
NUL == "NUL"

RECURSIVE SeqsUpTo(_, _)
SeqsUpTo(S, n) ==
    IF n = 0 THEN {<<>>}
    ELSE SeqsUpTo(S, n - 1) \cup [1..n -> S]

\* the &str arguments of append_str
Strs == SeqsUpTo(Bytes, MaxStrLen)

\* String::with_capacity(capacity): one allocation, empty, of that capacity
with_capacity(capacity) == [ptr |-> 0, buf |-> <<>>, cap |-> capacity]

\* String::push_str / String::push: the bytes are appended; when they do not
\* fit in the spare capacity the buffer is reallocated first (amortized
\* growth), and the allocator moves it (moved) or extends it in place
push_str(sb, string, moved) ==
    IF Len(sb.buf) + Len(string) <= sb.cap
    THEN [sb EXCEPT !.buf = sb.buf \o string]
    ELSE [ptr |-> IF moved THEN sb.ptr + 1 ELSE sb.ptr,
          buf |-> sb.buf \o string,
          cap |-> Max(2 * sb.cap, Len(sb.buf) + Len(string))]

\* the *const str append_str builds: the last Len(string) bytes of the buffer
slice_from_raw_parts(sb, string) ==
    [ptr |-> sb.ptr, off |-> Len(sb.buf) - Len(string), len |-> Len(string),
     arg |-> string]

\* variant: no capacity check after the push
realloc_unnoticed(prepushcap, cap) == FALSE

\* registry/mod.rs append_str: `if prepushcap != self.string_buffer.capacity()`
realloc_detected(prepushcap, cap) == prepushcap # cap

\* the *const c_char lib.rs append_str builds:
\* as_ptr + len - string.len() - 1
c_char_ptr(sb, string) ==
    [ptr |-> sb.ptr, off |-> Len(sb.buf) - Len(string) - 1, len |-> Len(string),
     arg |-> string]

\* the bytes a view reads: defined while its allocation is the live one
Live(v) == v.ptr = string_buffer.ptr
Read(v) == SubSeq(string_buffer.buf, v.off + 1, v.off + v.len)

NoArenaOp == [name |-> "none", arg |-> <<>>, pre |-> with_capacity(0), nviews |-> 0]

\* VkRegistry::new (registry/mod.rs) and load_xml/VkRegistry::new (lib.rs):
\* the buffer is created with the capacity of the XML's length
ArenaInit ==
    /\ vk_xml_len \in 0..MaxXmlLen
    /\ string_buffer = with_capacity(vk_xml_len)
    /\ views = <<>>
    /\ arena_op = NoArenaOp

ArenaIdle ==
    /\ vk_xml_len = 0
    /\ string_buffer = with_capacity(0)
    /\ views = <<>>
    /\ arena_op = NoArenaOp

\* registry/mod.rs VkRegistry::append_str(string)
AppendStr(string) ==
    /\ ~panicked
    /\ Len(views) < MaxInterns
    /\ \E moved \in BOOLEAN :
        LET prepushcap == string_buffer.cap
            sb == push_str(string_buffer, string, moved)
        IN  /\ string_buffer' = sb
            /\ IF realloc_detected(prepushcap, sb.cap)
               THEN /\ panicked' = TRUE
                    /\ views' = views
               ELSE /\ panicked' = FALSE
                    /\ views' = Append(views, slice_from_raw_parts(sb, string))
    /\ arena_op' = [name |-> "append_str", arg |-> string,
                    pre |-> string_buffer, nviews |-> Len(views)]
    /\ UNCHANGED <<vk_xml_len, loader_vars, reg_vars, item_vars>>

\* lib.rs VkRegistry::append_str(string)
LibAppendStr(string) ==
    /\ ~panicked
    /\ Len(views) < MaxInterns
    /\ \E moved1, moved2 \in BOOLEAN :
        LET sb == push_str(push_str(string_buffer, string, moved1),
                           <<NUL>>, moved2)
        IN  /\ string_buffer' = sb
            /\ views' = Append(views, c_char_ptr(sb, string))
    /\ arena_op' = [name |-> "append_str", arg |-> string,
                    pre |-> string_buffer, nviews |-> Len(views)]
    /\ UNCHANGED <<vk_xml_len, panicked, loader_vars, reg_vars, item_vars>>

ArenaNext == \E string \in Strs : AppendStr(string)

LibArenaNext == \E string \in Strs : LibAppendStr(string)

(***************************************************************************)
(* Part 3.  The registry's builder operations: registry/mod.rs push_type,  *)
(* push_command, push_feature, push_extn, and lib.rs push_type.            *)
(***************************************************************************)
None == [tag |-> "None"]
Some(x) == [tag |-> "Some", val |-> x]

\* HashMap::new(): a map is the set of its (key, value) entries
hm_empty == {}

\* variant: an entry with an equal key is kept beside the new one
hm_insert_keep(m, k, v) == m \cup {[key |-> k, val |-> v]}

\* HashMap::insert(k, v): an entry with an equal key is replaced
hm_insert(m, k, v) == {e \in m : e.key # k} \cup {[key |-> k, val |-> v]}

\* the named variants of VkType, and Unhandled
NamedKinds == {"Struct", "Union", "Enum", "Bitmask", "Handle", "TypeDef",
               "ApiConst", "Define", "FuncPointer", "ExternType"}
Unhandled == [kind |-> "Unhandled"]

\* the name of the pseudo-type push_type refuses
ApiConstants == "API Constants"
TypeNames == {"VkA", "VkB", ApiConstants}

\* the VkType values handed to push_type
VkTypes == {[kind |-> k, name |-> n] : k \in NamedKinds, n \in TypeNames}
               \cup {Unhandled}

\* VkType::name
VkType_name(vk_type) ==
    IF vk_type.kind = "Unhandled" THEN None ELSE Some(vk_type.name)

\* variant: no arm for Unhandled, whose name() is None: unwrap panics
push_type_no_unhandled_arm(reg_types, reg_core_consts, vk_type) ==
    LET consts == IF vk_type.kind = "ApiConst"
                  THEN Append(reg_core_consts, vk_type.name)
                  ELSE reg_core_consts
        name == VkType_name(vk_type)
    IN  IF name = None
        THEN [ret |-> "panic", types |-> reg_types, core_consts |-> consts]
        ELSE IF ApiConstants # name.val
        THEN [ret |-> "Ok", core_consts |-> consts,
              types |-> hm_insert(reg_types, name.val, vk_type)]
        ELSE [ret |-> "Err", types |-> reg_types, core_consts |-> consts]

\* variant: no test for the "API Constants" pseudo-type
push_type_no_sentinel_test(reg_types, reg_core_consts, vk_type) ==
    LET consts == IF vk_type.kind = "ApiConst"
                  THEN Append(reg_core_consts, vk_type.name)
                  ELSE reg_core_consts
    IN  IF vk_type = Unhandled
        THEN [ret |-> "Err", types |-> reg_types, core_consts |-> consts]
        ELSE [ret |-> "Ok", core_consts |-> consts,
              types |-> hm_insert(reg_types, VkType_name(vk_type).val, vk_type)]

\* registry/mod.rs VkRegistry::push_type
push_type(reg_types, reg_core_consts, vk_type) ==
    LET consts == IF vk_type.kind = "ApiConst"
                  THEN Append(reg_core_consts, vk_type.name)
                  ELSE reg_core_consts
    IN  IF vk_type = Unhandled
        THEN [ret |-> "Err", types |-> reg_types, core_consts |-> consts]
        ELSE LET name == VkType_name(vk_type).val IN
             IF ApiConstants # name
             THEN [ret |-> "Ok", core_consts |-> consts,
                   types |-> hm_insert(reg_types, name, vk_type)]
             ELSE [ret |-> "Err", types |-> reg_types, core_consts |-> consts]

\* VkElType, the two forms a finished parameter list is compared on
Unknown == [tag |-> "Unknown"]
Var(s) == [tag |-> "Var", s |-> s]

\* null_str()
NullStr == "null_str"

\* VkParam
VkParam(typ, name) == [typ |-> typ, name |-> name]
\* VkParam::empty
VkParam_empty == VkParam(Unknown, NullStr)
\* the parameters a pushed command is made of
Params == {VkParam_empty, VkParam(Var("uint32_t"), "a")}
ParamLists == SeqsUpTo(Params, MaxParams)

CommandNames == {"vkA", "vkB"}
\* VkCommand
VkCommand(name, params) == [ret |-> Var("VkResult"), name |-> name,
                            params |-> params]
\* the Option<VkCommand> values handed to push_command
CommandArgs == {Some(VkCommand(n, ps)) : n \in CommandNames, ps \in ParamLists}
                   \cup {None}

Front(seq) == SubSeq(seq, 1, Len(seq) - 1)

\* variant: every Unknown parameter is dropped, not the trailing ones only
pop_every_unknown(params) ==
    LET typed == SelectSeq(params, LAMBDA param : param.typ # Unknown)
    IN  [panic |-> typed = <<>>, params |-> typed]

\* variant: `if` for `while`, a single pop
pop_one(params) ==
    IF params = <<>> THEN [panic |-> TRUE, params |-> params]
    ELSE IF Unknown = params[Len(params)].typ
    THEN [panic |-> FALSE, params |-> Front(params)]
    ELSE [panic |-> FALSE, params |-> params]

RECURSIVE pop_trailing(_)
\* push_command: while VkElType::Unknown == cmd.params.last().unwrap().typ
\* { cmd.params.pop(); }   (last() of an empty list is None: unwrap panics)
pop_trailing(params) ==
    IF params = <<>> THEN [panic |-> TRUE, params |-> params]
    ELSE IF Unknown = params[Len(params)].typ
    THEN pop_trailing(Front(params))
    ELSE [panic |-> FALSE, params |-> params]

\* registry/mod.rs VkRegistry::push_command
push_command(reg_commands, vk_command) ==
    IF vk_command # None
    THEN LET cmd == vk_command.val
             popped == pop_trailing(cmd.params)
         IN  IF popped.panic
             THEN [ret |-> "panic", commands |-> reg_commands]
             ELSE [ret |-> "Ok",
                   commands |-> hm_insert(reg_commands, cmd.name,
                                          [cmd EXCEPT !.params = popped.params])]
    ELSE [ret |-> "Err", commands |-> reg_commands]

\* VkVersion
VkVersion(major, minor) == <<major, minor>>
\* VkFeature::new
VkFeature(name, version) == [name |-> name, version |-> version,
                             require |-> <<>>, remove |-> <<>>]
FeatureArgs == {Some(VkFeature("VK_VERSION_1_0", VkVersion(1, 0))), None}

\* registry/mod.rs VkRegistry::push_feature
push_feature(reg_features, feature) ==
    IF feature # None
    THEN [ret |-> "Ok",
          features |-> hm_insert(reg_features, feature.val.version, feature.val)]
    ELSE [ret |-> "Err", features |-> reg_features]

\* VkExtn::new
VkExtn(name, num) == [name |-> name, num |-> num,
                      require |-> <<>>, remove |-> <<>>]
ExtnArgs == {Some(VkExtn("VK_KHR_surface", 1)), None}

\* registry/mod.rs VkRegistry::push_extn
push_extn(reg_extns, extn) ==
    IF extn # None
    THEN [ret |-> "Ok", extns |-> hm_insert(reg_extns, extn.val.name, extn.val)]
    ELSE [ret |-> "Err", extns |-> reg_extns]

\* the VkType values of lib.rs handed to its push_type
LibVkTypes == {[kind |-> "Struct", name |-> "VkA"], Unhandled}

\* lib.rs VkRegistry::push_type
lib_push_type(reg_types, vk_type) ==
    IF vk_type = Unhandled
    THEN [ret |-> "Err", types |-> reg_types]
    ELSE [ret |-> "Ok", types |-> Append(reg_types, vk_type)]

\* the collections as one value
Collections == [types |-> types, core_consts |-> core_consts,
                commands |-> commands, features |-> features,
                extns |-> extns, lib_types |-> lib_types]

RegOp(name, arg, ret) == [name |-> name, arg |-> arg, ret |-> ret,
                          pre |-> Collections]

\* the collections right after the struct literal of VkRegistry::new
RegInit ==
    /\ types = hm_empty
    /\ core_consts = <<>>
    /\ commands = hm_empty
    /\ features = hm_empty
    /\ extns = hm_empty
    /\ lib_types = <<>>
    /\ reg_op = [name |-> "none", arg |-> None, ret |-> "none",
                 pre |-> [types |-> hm_empty, core_consts |-> <<>>,
                          commands |-> hm_empty, features |-> hm_empty,
                          extns |-> hm_empty, lib_types |-> <<>>]]
    /\ api_consts = <<>>

\* registry.push_type(vk_type)
PushType(vk_type) ==
    /\ ~panicked
    /\ vk_type.kind = "ApiConst" => Len(core_consts) < MaxConsts
    /\ LET r == push_type(types, core_consts, vk_type) IN
        /\ types' = r.types
        /\ core_consts' = r.core_consts
        /\ panicked' = (r.ret = "panic")
        /\ reg_op' = RegOp("push_type", vk_type, r.ret)
    /\ api_consts' = IF vk_type.kind = "ApiConst"
                     THEN Append(api_consts, vk_type.name) ELSE api_consts
    /\ UNCHANGED <<commands, features, extns, lib_types>>
    /\ UNCHANGED <<loader_vars, arena_vars, item_vars>>

\* registry.push_command(vk_command)
PushCommand(vk_command) ==
    /\ ~panicked
    /\ LET r == push_command(commands, vk_command) IN
        /\ commands' = r.commands
        /\ panicked' = (r.ret = "panic")
        /\ reg_op' = RegOp("push_command", vk_command, r.ret)
    /\ UNCHANGED <<types, core_consts, features, extns, lib_types, api_consts>>
    /\ UNCHANGED <<loader_vars, arena_vars, item_vars>>

\* registry.push_feature(feature)
PushFeature(feature) ==
    /\ ~panicked
    /\ LET r == push_feature(features, feature) IN
        /\ features' = r.features
        /\ reg_op' = RegOp("push_feature", feature, r.ret)
    /\ UNCHANGED <<types, core_consts, commands, extns, lib_types, panicked,
                 api_consts>>
    /\ UNCHANGED <<loader_vars, arena_vars, item_vars>>

\* registry.push_extn(extn)
PushExtn(extn) ==
    /\ ~panicked
    /\ LET r == push_extn(extns, extn) IN
        /\ extns' = r.extns
        /\ reg_op' = RegOp("push_extn", extn, r.ret)
    /\ UNCHANGED <<types, core_consts, commands, features, lib_types, panicked,
                 api_consts>>
    /\ UNCHANGED <<loader_vars, arena_vars, item_vars>>

\* lib.rs registry.push_type(vk_type)
LibPushType(vk_type) ==
    /\ ~panicked
    /\ vk_type # Unhandled => Len(lib_types) < MaxLibTypes
    /\ LET r == lib_push_type(lib_types, vk_type) IN
        /\ lib_types' = r.types
        /\ reg_op' = RegOp("lib_push_type", vk_type, r.ret)
    /\ UNCHANGED <<types, core_consts, commands, features, extns, panicked,
                 api_consts>>
    /\ UNCHANGED <<loader_vars, arena_vars, item_vars>>

TypesNext == \E vk_type \in VkTypes : PushType(vk_type)

CommandsNext == \E vk_command \in CommandArgs : PushCommand(vk_command)

\* the arguments the four pushes are followed on together
RegTypeArgs == {[kind |-> "Struct", name |-> "VkA"],
                [kind |-> "ApiConst", name |-> "VkB"], Unhandled}
RegCommandArgs == {Some(VkCommand("vkA", <<VkParam(Var("uint32_t"), "a")>>)),
                   Some(VkCommand("vkA", <<VkParam(Var("uint32_t"), "a"),
                                           VkParam_empty>>)),
                   None}

RegistryNext ==
    \/ \E vk_type \in RegTypeArgs : PushType(vk_type)
    \/ \E vk_command \in RegCommandArgs : PushCommand(vk_command)
    \/ \E feature \in FeatureArgs : PushFeature(feature)
    \/ \E extn \in ExtnArgs : PushExtn(extn)
    \/ \E vk_type \in LibVkTypes : LibPushType(vk_type)

(***************************************************************************)
(* Part 4.  VkElType: the type of a member, a parameter or a return value, *)
(* built up by the calls the crawler makes while it reads an element.      *)
(***************************************************************************)
\* largest pointer depth handed to make_ptr
MaxPtrCount == 2
\* largest integer size handed to make_array
MaxArraySize == 2

\* VkElType, the forms besides Var and Unknown
Const(s) == [tag |-> "Const", s |-> s]
ConstPtr(s, count) == [tag |-> "ConstPtr", s |-> s, count |-> count]
MutPtr(s, count) == [tag |-> "MutPtr", s |-> s, count |-> count]
ConstArray(s, size) == [tag |-> "ConstArray", s |-> s, size |-> size]
MutArray(s, size) == [tag |-> "MutArray", s |-> s, size |-> size]
ConstArrayEnum(s, e) == [tag |-> "ConstArrayEnum", s |-> s, e |-> e]
MutArrayEnum(s, e) == [tag |-> "MutArrayEnum", s |-> s, e |-> e]
Void == [tag |-> "Void"]

\* the type names, pointer depths, sizes and sizing constants the calls get
ElTypeNames == {"uint32_t", "VkA"}
PtrCounts == 1..MaxPtrCount
ArraySizes == 0..MaxArraySize
SizeEnums == {"VK_UUID_SIZE", "VK_MAX_SIZE"}

\* a call returns with self as given, or panics and leaves self as it was
Returns(self) == [panic |-> FALSE, el |-> self]
Panics(self) == [panic |-> TRUE, el |-> self]

\* VkElType::type_ptr
type_ptr(self) ==
    IF self.tag \in {"Void", "Unknown"} THEN None ELSE Some(self.s)

\* VkElType::set_type
set_type(self, typ) ==
    CASE self.tag \in {"Var", "Const", "ConstPtr", "MutPtr", "ConstArray",
                       "ConstArrayEnum", "MutArray", "MutArrayEnum"}
             -> Returns([self EXCEPT !.s = typ])
      [] self.tag = "Void" -> Panics(self)
      [] self.tag = "Unknown" -> Returns(Var(typ))

\* variant: the array arms leave the element alone instead of panicking
make_const_keeps_arrays(self) ==
    CASE self.tag \in {"Var", "Const"} -> Returns(Const(self.s))
      [] self.tag \in {"ConstPtr", "MutPtr"} -> Panics(self)
      [] self.tag \in {"ConstArray", "ConstArrayEnum", "MutArray",
                       "MutArrayEnum"} -> Returns(self)
      [] self.tag \in {"Void", "Unknown"} -> Returns(Const(NullStr))

\* VkElType::make_const
make_const(self) ==
    CASE self.tag \in {"Var", "Const"} -> Returns(Const(self.s))
      [] self.tag \in {"ConstPtr", "MutPtr"} -> Panics(self)
      [] self.tag \in {"ConstArray", "ConstArrayEnum", "MutArray",
                       "MutArrayEnum"} -> Panics(self)
      [] self.tag \in {"Void", "Unknown"} -> Returns(Const(NullStr))

\* variant: a pointer may be made a pointer again
make_ptr_again(self, count) ==
    CASE self.tag = "Var" -> Returns(MutPtr(self.s, count))
      [] self.tag = "Const" -> Returns(ConstPtr(self.s, count))
      [] self.tag = "MutPtr" -> Returns(MutPtr(self.s, count))
      [] self.tag = "ConstPtr" -> Returns(ConstPtr(self.s, count))
      [] self.tag \in {"ConstArray", "ConstArrayEnum", "MutArray",
                       "MutArrayEnum"} -> Panics(self)
      [] self.tag \in {"Void", "Unknown"} -> Returns(MutPtr(NullStr, count))

\* variant: Void is refused with the pointers and the arrays
make_ptr_void_panics(self, count) ==
    CASE self.tag = "Var" -> Returns(MutPtr(self.s, count))
      [] self.tag = "Const" -> Returns(ConstPtr(self.s, count))
      [] self.tag = "Unknown" -> Returns(MutPtr(NullStr, count))
      [] OTHER -> Panics(self)

\* variant: the pointer to a const element is made mutable
make_ptr_drops_const(self, count) ==
    CASE self.tag \in {"Var", "Const"} -> Returns(MutPtr(self.s, count))
      [] self.tag \in {"Void", "Unknown"} -> Returns(MutPtr(NullStr, count))
      [] OTHER -> Panics(self)

\* VkElType::make_ptr
make_ptr(self, count) ==
    CASE self.tag = "Var" -> Returns(MutPtr(self.s, count))
      [] self.tag = "Const" -> Returns(ConstPtr(self.s, count))
      [] self.tag \in {"MutPtr", "ConstPtr"} -> Panics(self)
      [] self.tag \in {"ConstArray", "ConstArrayEnum", "MutArray",
                       "MutArrayEnum"} -> Panics(self)
      [] self.tag \in {"Void", "Unknown"} -> Returns(MutPtr(NullStr, count))

\* variant: the array of a const element is made mutable
make_array_drops_const(self, size) ==
    CASE self.tag \in {"Var", "Const"} ->
             IF size = 0 THEN Returns(MutArrayEnum(self.s, NullStr))
             ELSE Returns(MutArray(self.s, size))
      [] OTHER -> Panics(self)

\* VkElType::make_array
make_array(self, size) ==
    CASE self.tag = "Var" ->
             IF size = 0 THEN Returns(MutArrayEnum(self.s, NullStr))
             ELSE Returns(MutArray(self.s, size))
      [] self.tag = "Const" ->
             IF size = 0 THEN Returns(ConstArrayEnum(self.s, NullStr))
             ELSE Returns(ConstArray(self.s, size))
      [] self.tag \in {"MutPtr", "ConstPtr"} -> Panics(self)
      [] self.tag \in {"ConstArray", "ConstArrayEnum", "MutArray",
                       "MutArrayEnum"} -> Panics(self)
      [] self.tag \in {"Void", "Unknown"} -> Panics(self)

\* variant: a fixed-size array takes a sizing constant as well
set_array_const_any_array(self, size_enum) ==
    CASE self.tag \in {"ConstArrayEnum", "MutArrayEnum"} ->
             Returns([self EXCEPT !.e = size_enum])
      [] self.tag = "ConstArray" -> Returns(ConstArrayEnum(self.s, size_enum))
      [] self.tag = "MutArray" -> Returns(MutArrayEnum(self.s, size_enum))
      [] OTHER -> Panics(self)

\* VkElType::set_array_const
set_array_const(self, size_enum) ==
    CASE self.tag \in {"Var", "Const", "MutPtr", "ConstPtr"} -> Panics(self)
      [] self.tag \in {"ConstArrayEnum", "MutArrayEnum"} ->
             Returns([self EXCEPT !.e = size_enum])
      [] self.tag \in {"ConstArray", "MutArray"} -> Panics(self)
      [] self.tag \in {"Void", "Unknown"} -> Panics(self)

\* VkElType::make_void
make_void(self) ==
    CASE self.tag = "Unknown" -> Returns(Void)
      [] OTHER -> Panics(self)

ElOp(name, arg) == [name |-> name, arg |-> arg, pre |-> el]

\* VkMember::empty, VkParam::empty, VkCommand::empty: the type is Unknown
ElemInit ==
    /\ el = Unknown
    /\ el_op = [name |-> "none", arg |-> None, pre |-> Unknown]

\* one call on the element: it returns with the new form, or panics
ElCall(name, arg, r) ==
    /\ ~panicked
    /\ el' = r.el
    /\ panicked' = r.panic
    /\ el_op' = ElOp(name, arg)
    /\ UNCHANGED <<member_vars, flag_vars, version_vars>>
    /\ UNCHANGED <<loader_vars, arena_vars, reg_vars>>

SetType(typ) == ElCall("set_type", typ, set_type(el, typ))
MakeConst == ElCall("make_const", None, make_const(el))
MakePtr(count) == ElCall("make_ptr", count, make_ptr(el, count))
MakeArray(size) == ElCall("make_array", size, make_array(el, size))
SetArrayConst(size_enum) ==
    ElCall("set_array_const", size_enum, set_array_const(el, size_enum))
MakeVoid == ElCall("make_void", None, make_void(el))

ElemNext ==
    \/ \E typ \in ElTypeNames : SetType(typ)
    \/ MakeConst
    \/ \E count \in PtrCounts : MakePtr(count)
    \/ \E size \in ArraySizes : MakeArray(size)
    \/ \E size_enum \in SizeEnums : SetArrayConst(size_enum)
    \/ MakeVoid

(***************************************************************************)
(* Part 5.  VkMember: a member of a struct or union, named once while its  *)
(* type is built up (registry/mod.rs, and the VkMember of lib.rs).         *)
(***************************************************************************)
\* the names append_str hands back for the name tags of the members
FieldNames == {"sType", "pNext"}

\* registry/mod.rs VkMember::set_name, on the field_name of self
set_name(self, field_name) ==
    IF self # NullStr
    THEN [panic |-> TRUE, field_name |-> self]
    ELSE [panic |-> FALSE, field_name |-> field_name]

\* lib.rs VkMember::set_name, on the field_name of self
lib_set_name(self, field_name) ==
    IF field_name # Null
    THEN [panic |-> TRUE, field_name |-> self]
    ELSE [panic |-> FALSE, field_name |-> field_name]

\* VkMember::empty of registry/mod.rs and of lib.rs
MemberInit ==
    /\ member = NullStr
    /\ lib_member = Null
    /\ member_op = [name |-> "none", arg |-> None, panic |-> FALSE,
                    pre |-> NullStr, lib_pre |-> Null]

MemberOp(name, arg, panic) == [name |-> name, arg |-> arg, panic |-> panic,
                               pre |-> member, lib_pre |-> lib_member]

\* member.set_name(field_name) on a registry/mod.rs VkMember
SetName(field_name) ==
    /\ ~panicked
    /\ LET r == set_name(member, field_name) IN
        /\ member' = r.field_name
        /\ panicked' = r.panic
        /\ member_op' = MemberOp("set_name", field_name, r.panic)
    /\ UNCHANGED <<lib_member, elem_vars, flag_vars, version_vars>>
    /\ UNCHANGED <<loader_vars, arena_vars, reg_vars>>

\* member.set_name(field_name) on a lib.rs VkMember
LibSetName(field_name) ==
    /\ ~panicked
    /\ LET r == lib_set_name(lib_member, field_name) IN
        /\ lib_member' = r.field_name
        /\ panicked' = r.panic
        /\ member_op' = MemberOp("lib_set_name", field_name, r.panic)
    /\ UNCHANGED <<member, elem_vars, flag_vars, version_vars>>
    /\ UNCHANGED <<loader_vars, arena_vars, reg_vars>>

\* a member is named and its field_type built up in any order
MemberNext ==
    \/ \E field_name \in FieldNames : SetName(field_name)
    \/ \E field_name \in FieldNames \cup {Null} : LibSetName(field_name)
    \/ ElemNext

(***************************************************************************)
(* Part 6.  vk_bitflags_wrapped!: the wrapper emitted for a bitmask type   *)
(* (prelude_common.rs, and again in prelude_struct_gen.rs).                *)
(***************************************************************************)
\* number of bits of $flag_type followed
FlagBits == 3

\* the values of $flag_type
FlagInts == 0..(2^FlagBits - 1)

RECURSIVE int_and(_, _)
\* & on $flag_type
int_and(x, y) ==
    IF x = 0 \/ y = 0 THEN 0
    ELSE ((x % 2) * (y % 2)) + 2 * int_and(x \div 2, y \div 2)

RECURSIVE int_or(_, _)
\* | on $flag_type
int_or(x, y) ==
    IF x = 0 THEN y
    ELSE IF y = 0 THEN x
    ELSE (IF x % 2 = 1 \/ y % 2 = 1 THEN 1 ELSE 0)
             + 2 * int_or(x \div 2, y \div 2)

RECURSIVE int_xor(_, _)
\* ^ on $flag_type
int_xor(x, y) ==
    IF x = 0 THEN y
    ELSE IF y = 0 THEN x
    ELSE (((x % 2) + (y % 2)) % 2) + 2 * int_xor(x \div 2, y \div 2)

\* ! on $flag_type
int_not(x) == (2^FlagBits - 1) - x

\* $name {flags: ...}
Wrapped(flags) == [flags |-> flags]

\* $name::empty
empty == Wrapped(0)
\* $name::all
all == Wrapped(all_flags)
\* $name::flags
flags(self) == self.flags

\* $name::from_flags
from_flags(f) ==
    IF int_and(f, int_not(all_flags)) = 0 THEN Some(Wrapped(f)) ELSE None

\* $name::from_flags_truncate
from_flags_truncate(f) == Wrapped(int_and(f, all_flags))

\* impl BitOr
bitor(self, other) == Wrapped(int_or(self.flags, other.flags))
\* impl BitAnd
bitand(self, other) == Wrapped(int_and(self.flags, other.flags))
\* impl BitXor
bitxor(self, other) == Wrapped(int_xor(self.flags, other.flags))
\* variant: the complement taken on the integer, not within $all
not_of_integer(self) == Wrapped(int_not(self.flags))

\* impl Not
not(self) == bitxor(self, all)

\* variant: the difference taken as the symmetric difference
sub_as_xor(self, other) == bitxor(self, other)

\* impl Sub
sub(self, other) == bitand(self, not(other))

\* $name::is_empty
is_empty(self) == self = empty
\* $name::is_all
is_all(self) == bitand(self, all) = all
\* $name::intersects
intersects(self, other) == bitand(self, other) # empty
\* $name::subset
subset(self, other) == bitand(self, other) = other

FlagOp(name, arg) == [name |-> name, arg |-> arg, pre |-> lhs]

\* a wrapped type of any $all, and two values that start as empty()
FlagInit ==
    /\ all_flags \in FlagInts
    /\ lhs = empty
    /\ rhs = empty
    /\ flag_op = [name |-> "none", arg |-> None, pre |-> empty]

\* no wrapped type is followed
FlagIdle ==
    /\ all_flags = 0
    /\ lhs = empty
    /\ rhs = empty
    /\ flag_op = [name |-> "none", arg |-> None, pre |-> empty]

\* lhs = op(lhs, rhs), or lhs op= rhs through the *Assign impl
FlagAssign(name, arg, value) ==
    /\ lhs' = value
    /\ flag_op' = FlagOp(name, arg)
    /\ UNCHANGED <<all_flags, rhs, elem_vars, member_vars, version_vars,
                   panicked>>
    /\ UNCHANGED <<loader_vars, arena_vars, reg_vars>>

\* if let Some(v) = $name::from_flags(f) { lhs = v }
FromFlags(f) ==
    /\ from_flags(f) # None
    /\ FlagAssign("from_flags", f, from_flags(f).val)

\* rhs = $name::from_flags_truncate(f)
FromFlagsTruncate(f) ==
    /\ rhs' = from_flags_truncate(f)
    /\ flag_op' = FlagOp("from_flags_truncate", f)
    /\ UNCHANGED <<all_flags, lhs, elem_vars, member_vars, version_vars,
                   panicked>>
    /\ UNCHANGED <<loader_vars, arena_vars, reg_vars>>

BitOrAssign == FlagAssign("bitor", None, bitor(lhs, rhs))
BitAndAssign == FlagAssign("bitand", None, bitand(lhs, rhs))
BitXorAssign == FlagAssign("bitxor", None, bitxor(lhs, rhs))
SubAssign == FlagAssign("sub", None, sub(lhs, rhs))
Not == FlagAssign("not", None, not(lhs))

FlagNext ==
    \/ \E f \in FlagInts : FromFlags(f)
    \/ \E f \in FlagInts : FromFlagsTruncate(f)
    \/ BitOrAssign
    \/ BitAndAssign
    \/ BitXorAssign
    \/ SubAssign
    \/ Not

(***************************************************************************)
(* Part 7.  The version macros of defines.rs: vk_make_version! and the     *)
(* three macros that read a version apart, on uint32_t.                    *)
(***************************************************************************)
\* how far from each end of a field's range the inputs are taken
VersionEdge == 1

\* uint32_t: a value is its 32 bits, bit 0 the least
BitIndex == 0..31

\* $x as uint32_t, of an integer 0 <= x < 2^31
as_uint32_t(x) == [i \in BitIndex |-> IF i < 31 THEN (x \div (2^i)) % 2 ELSE 0]
\* <<, >>, | and & on uint32_t: << drops the bits shifted out at the top
shl(w, n) == [i \in BitIndex |-> IF i >= n THEN w[i - n] ELSE 0]
shr(w, n) == [i \in BitIndex |-> IF i + n <= 31 THEN w[i + n] ELSE 0]
word_or(v, w) == [i \in BitIndex |-> IF v[i] = 1 \/ w[i] = 1 THEN 1 ELSE 0]
word_and(v, w) == [i \in BitIndex |-> v[i] * w[i]]

\* vk_make_version!
vk_make_version(major, minor, patch) ==
    word_or(word_or(shl(as_uint32_t(major), 22), shl(as_uint32_t(minor), 12)),
            as_uint32_t(patch))

\* vk_version_major!, on a uint32_t
vk_version_major(v) == shr(v, 22)

\* variant: the minor read without its mask
vk_version_minor_unmasked(v) == shr(v, 12)

\* vk_version_minor!, on a uint32_t: 0x3ff is 1023
vk_version_minor(v) == word_and(shr(v, 12), as_uint32_t(1023))

\* vk_version_patch!, on a uint32_t: 0xfff is 4095
vk_version_patch(v) == word_and(v, as_uint32_t(4095))

\* the values of a field of the given number of bits that lie at most
\* VersionEdge from its least value or from the first value that does not fit
FieldInputs(bits) ==
    (0..VersionEdge) \cup ((2^bits - 1 - VersionEdge)..(2^bits))

\* no version has been built
VersionInit ==
    /\ packed = as_uint32_t(0)
    /\ version_in = <<0, 0, 0>>
    /\ version_out = [made |-> FALSE, major |-> None, minor |-> None,
                      patch |-> None]

\* let v = vk_make_version!(major, minor, patch)
MakeVersion(major, minor, patch) ==
    /\ packed' = vk_make_version(major, minor, patch)
    /\ version_in' = <<major, minor, patch>>
    /\ version_out' = [made |-> TRUE, major |-> None, minor |-> None,
                       patch |-> None]
    /\ UNCHANGED <<elem_vars, member_vars, flag_vars, panicked>>
    /\ UNCHANGED <<loader_vars, arena_vars, reg_vars>>

\* vk_version_major!(v)
VersionMajor ==
    /\ version_out.made
    /\ version_out' =
           [version_out EXCEPT !.major = Some(vk_version_major(packed))]
    /\ UNCHANGED <<packed, version_in, elem_vars, member_vars, flag_vars,
                   panicked>>
    /\ UNCHANGED <<loader_vars, arena_vars, reg_vars>>

\* vk_version_minor!(v)
VersionMinor ==
    /\ version_out.made
    /\ version_out' =
           [version_out EXCEPT !.minor = Some(vk_version_minor(packed))]
    /\ UNCHANGED <<packed, version_in, elem_vars, member_vars, flag_vars,
                   panicked>>
    /\ UNCHANGED <<loader_vars, arena_vars, reg_vars>>

\* vk_version_patch!(v)
VersionPatch ==
    /\ version_out.made
    /\ version_out' =
           [version_out EXCEPT !.patch = Some(vk_version_patch(packed))]
    /\ UNCHANGED <<packed, version_in, elem_vars, member_vars, flag_vars,
                   panicked>>
    /\ UNCHANGED <<loader_vars, arena_vars, reg_vars>>

VersionNext ==
    \/ \E major \in FieldInputs(10), minor \in FieldInputs(10),
          patch \in FieldInputs(12) : MakeVersion(major, minor, patch)
    \/ VersionMajor
    \/ VersionMinor
    \/ VersionPatch

\* nothing but the part a specification follows has started
ItemIdle == ElemInit /\ MemberInit /\ FlagIdle /\ VersionInit

(***************************************************************************)
(* The specifications.                                                     *)
(***************************************************************************)
InitLoader == LoaderInit /\ ArenaIdle /\ RegInit /\ ItemIdle /\ panicked = FALSE
SpecLoader == InitLoader /\ [][LoaderNext]_vars

InitArena == LoaderInit /\ ArenaInit /\ RegInit /\ ItemIdle /\ panicked = FALSE
SpecArena == InitArena /\ [][ArenaNext]_vars

SpecLibArena == InitArena /\ [][LibArenaNext]_vars

InitRegistry == LoaderInit /\ ArenaIdle /\ RegInit /\ ItemIdle /\ panicked = FALSE
SpecTypes == InitRegistry /\ [][TypesNext]_vars

SpecCommands == InitRegistry /\ [][CommandsNext]_vars

SpecRegistry == InitRegistry /\ [][RegistryNext]_vars

SpecElType == InitRegistry /\ [][ElemNext]_vars

SpecMember == InitRegistry /\ [][MemberNext]_vars

InitFlags == LoaderInit /\ ArenaIdle /\ RegInit /\ ElemInit /\ MemberInit
                 /\ FlagInit /\ VersionInit /\ panicked = FALSE
SpecFlags == InitFlags /\ [][FlagNext]_vars

SpecVersion == InitRegistry /\ [][VersionNext]_vars

(***************************************************************************)
(* Claims about the loader.                                                *)
(***************************************************************************)
Range(seq) == {seq[i] : i \in 1..Len(seq)}

\* a slot that holds neither the sentinel nor null
Resolved(fn_ptr) == fn_ptr # unloaded_function_panic /\ fn_ptr # Null

\* C1: a load returns success exactly when every slot holds a resolved
\* pointer after the call, and otherwise fails with exactly the names of the
\* commands whose slots are still unresolved after the call.
C1_ResultNamesUnresolved ==
    op = "reload_fns" =>
        LET unresolved == {c \in Cmds : ~Resolved(vk[c])} IN
        /\ (result.tag = "Ok") <=> (unresolved = {})
        /\ result.tag = "Err" => Range(result.unloaded) = unresolved

\* C2: in a load, a slot whose command the resolver answers with null keeps
\* the value it had before the call, and a slot whose command the resolver
\* answers with a non-null pointer holds exactly that pointer afterwards.
C2_OverwriteOnlyOnNonNull ==
    /\ op = "reload_fns" =>
           \A c \in Cmds :
               vk[c] = IF load_fn[c] = Null THEN vk_pre[c] ELSE load_fn[c]
    /\ op = "load_with" =>
           \A c \in Cmds : load_fn[c] # Null => vk[c] = load_fn[c]

\* a reload that kept a loaded slot on null and replaced another loaded slot
C2_Witness ==
    /\ op = "reload_fns"
    /\ \E c \in Cmds : load_fn[c] = Null /\ vk_pre[c] \in FnAddrs
    /\ \E d \in Cmds :
           load_fn[d] # Null /\ vk_pre[d] \in FnAddrs /\ vk_pre[d] # load_fn[d]

\* C3: a second load in a row with the same resolver leaves the slots as the
\* first left them and returns what the first returned.
C3_IdempotentReload ==
    (op = "reload_fns" /\ prev.op = "reload_fns" /\ same_fn) =>
        /\ vk = vk_pre
        /\ result = prev.result

\* two reloads in a row with one resolver that answers some names only, the
\* second one failing
C3_Witness ==
    /\ op = "reload_fns" /\ prev.op = "reload_fns" /\ same_fn
    /\ \E c \in Cmds : load_fn[c] # Null
    /\ \E c \in Cmds : load_fn[c] = Null
    /\ result.tag = "Err"

\* C4: in a container that has just been constructed, every slot no resolver
\* has filled holds the abort sentinel: it is not loaded and a call through it
\* reaches the unloaded-function panic.
C4_UnfilledSlotIsSentinel ==
    op = "load_with" =>
        \A c \in Cmds :
            load_fn[c] = Null =>
                /\ ~is_loaded(vk[c])
                /\ dispatch(vk, c) = unloaded_function_panic

\* C5: on slots that were never loaded, a load whose resolver answers null
\* for every name fails with every command name once, in declaration order.
C5_NullResolverListsAll ==
    (op = "reload_fns" /\ ever_loaded = {} /\ \A c \in Cmds : load_fn[c] = Null)
        => result = Err([i \in 1..NumCmds |-> i])

(***************************************************************************)
(* Claims about the string arena.                                          *)
(***************************************************************************)
\* C6: as long as every append_str call has returned, every view returned so
\* far still reads the bytes of its argument: the buffer has not been
\* relocated and later calls have written only after it.
C6_ViewsStable ==
    ~panicked =>
        \A i \in 1..Len(views) : Live(views[i]) /\ Read(views[i]) = views[i].arg

\* C7: the capacity is the XML's length as long as no call has aborted; a
\* call whose argument does not fit in the remaining capacity aborts and
\* returns no view; a call whose argument fits returns, with a view into the
\* buffer where it was.
C7_AbortsExactlyOnOverflow ==
    /\ ~panicked => string_buffer.cap = vk_xml_len
    /\ arena_op.name = "append_str" =>
        LET remaining == arena_op.pre.cap - Len(arena_op.pre.buf) IN
        /\ Len(arena_op.arg) > remaining =>
               panicked /\ Len(views) = arena_op.nviews
        /\ Len(arena_op.arg) <= remaining =>
               /\ ~panicked
               /\ Len(views) = arena_op.nviews + 1
               /\ string_buffer.ptr = arena_op.pre.ptr
               /\ Live(views[Len(views)])

\* a call returned a view and a later call did not fit and aborted
C7_Witness ==
    /\ panicked
    /\ arena_op.name = "append_str"
    /\ Len(views) >= 1
    /\ Len(arena_op.arg) > arena_op.pre.cap - Len(arena_op.pre.buf)

(***************************************************************************)
(* Claims about the registry's builder operations.                         *)
(***************************************************************************)
\* C8: the type collection holds at most one entry per type name, whatever
\* the variants, and every entry is stored under the name its type carries.
C8_TypeNamesUnique ==
    /\ \A e1, e2 \in types : e1.key = e2.key => e1 = e2
    /\ \A e \in types : VkType_name(e.val) = Some(e.key)

\* a type was pushed under a name already held by another variant, next to
\* an entry of another name
C8_Witness ==
    /\ reg_op.name = "push_type" /\ reg_op.ret = "Ok"
    /\ \E e \in reg_op.pre.types :
           e.key = reg_op.arg.name /\ e.val.kind # reg_op.arg.kind
    /\ Cardinality(types) = 2

\* the list without its maximal run of trailing Unknown entries
StripTrailingUnknown(params) ==
    LET typed == {i \in 1..Len(params) : params[i].typ # Unknown}
        last == IF typed = {} THEN 0
                ELSE CHOOSE i \in typed : \A j \in typed : j <= i
    IN  SubSeq(params, 1, last)

\* C9: every stored command has a parameter list whose last entry is not
\* Unknown, and the list stored by a push is the pushed list without its
\* maximal run of trailing Unknown entries, the rest kept in order.
C9_NoTrailingUnknown ==
    /\ \A e \in commands :
           /\ e.val.params # <<>>
           /\ e.val.params[Len(e.val.params)].typ # Unknown
    /\ (reg_op.name = "push_command" /\ reg_op.ret = "Ok") =>
           \E e \in commands :
               /\ e.key = reg_op.arg.val.name
               /\ e.val = [reg_op.arg.val EXCEPT
                              !.params = StripTrailingUnknown(reg_op.arg.val.params)]

\* a command with a run of two trailing Unknown entries was stored
C9_Witness ==
    /\ reg_op.name = "push_command" /\ reg_op.ret = "Ok"
    /\ LET ps == reg_op.arg.val.params IN
           /\ Len(ps) >= 3
           /\ ps[Len(ps)].typ = Unknown
           /\ ps[Len(ps) - 1].typ = Unknown
    /\ \E e \in commands : e.key = reg_op.arg.val.name /\ Len(e.val.params) = 1

\* C10: a push of Unhandled or of None returns failure, does not abort and
\* leaves every collection as it was.
C10_RejectsLeaveUnchanged ==
    (reg_op.name # "none" /\ (reg_op.arg = Unhandled \/ reg_op.arg = None)) =>
        /\ reg_op.ret = "Err"
        /\ ~panicked
        /\ Collections = reg_op.pre

\* Unhandled was pushed on a registry whose collections all hold something
C10_Witness ==
    /\ reg_op.name = "push_type" /\ reg_op.arg = Unhandled
    /\ types # {} /\ core_consts # <<>> /\ commands # {}
    /\ features # {} /\ extns # {} /\ lib_types # <<>>

\* C11: after any sequence of push_type calls the core-constants list is the
\* sequence of the names of the ApiConst types pushed, in push order; the type
\* map never holds an entry named "API Constants": a push_type of a type of
\* that name returns failure and registers no type.
C11_CoreConstsAreApiConstsPushed ==
    /\ core_consts = api_consts
    /\ \A e \in types : e.key # ApiConstants
    /\ (reg_op.name = "push_type" /\ reg_op.arg # Unhandled
            /\ reg_op.arg.name = ApiConstants) =>
           /\ reg_op.ret = "Err"
           /\ types = reg_op.pre.types

\* two ApiConst types of different names were pushed, and a type named
\* "API Constants" was refused on a type map that holds something
C11_Witness ==
    /\ reg_op.name = "push_type" /\ reg_op.arg # Unhandled
    /\ reg_op.arg.name = ApiConstants
    /\ Len(core_consts) = 2 /\ core_consts[1] # core_consts[2]
    /\ types # {}

(***************************************************************************)
(* Claims about the wrapped bitmask types.                                 *)
(***************************************************************************)
\* bit i of the integer x
Bit(x, i) == (x \div (2^i)) % 2

\* C12: (a | b) holds the integer a.flags OR b.flags, and (a - b) holds the
\* integer a.flags AND NOT b.flags, bit by bit.
C12_OrAndDifferenceOnIntegers ==
    /\ flag_op.name = "bitor" =>
           /\ lhs.flags \in FlagInts
           /\ \A i \in 0..(FlagBits - 1) :
                  Bit(lhs.flags, i) = 1 <=>
                      (Bit(flag_op.pre.flags, i) = 1 \/ Bit(rhs.flags, i) = 1)
    /\ flag_op.name = "sub" =>
           /\ lhs.flags \in FlagInts
           /\ \A i \in 0..(FlagBits - 1) :
                  Bit(lhs.flags, i) = 1 <=>
                      (Bit(flag_op.pre.flags, i) = 1 /\ Bit(rhs.flags, i) = 0)

\* a difference a - b where b holds a bit of a and a bit a lacks, and a bit
\* of a is left
C12_Witness ==
    /\ flag_op.name = "sub"
    /\ \E i \in 0..(FlagBits - 1) :
           Bit(flag_op.pre.flags, i) = 1 /\ Bit(rhs.flags, i) = 1
    /\ \E i \in 0..(FlagBits - 1) :
           Bit(flag_op.pre.flags, i) = 0 /\ Bit(rhs.flags, i) = 1
    /\ lhs # empty

(***************************************************************************)
(* Claims about VkElType.                                                  *)
(***************************************************************************)
IsPtr(e) == e.tag \in {"ConstPtr", "MutPtr"}
IsFixedArray(e) == e.tag \in {"ConstArray", "MutArray"}
IsEnumArray(e) == e.tag \in {"ConstArrayEnum", "MutArrayEnum"}
IsArray(e) == IsFixedArray(e) \/ IsEnumArray(e)
IsTyped(e) == e.tag \in {"Var", "Const"} \/ IsPtr(e) \/ IsArray(e)

\* the last call returned and left the element as it was
Kept == ~panicked /\ el = el_op.pre
\* the last call aborted
Aborted == panicked /\ el = el_op.pre

\* C14: an element that is a pointer is a pointer after every further call,
\* so never an array, and make_array, set_array_const and make_ptr abort on
\* it; an element that is an array is an array after every further call, so
\* never a pointer, and make_ptr and make_array abort on it.
C14_PointerAndArrayExclusiveFinal ==
    /\ IsPtr(el_op.pre) =>
           /\ IsPtr(el) /\ ~IsArray(el)
           /\ el_op.name \in {"make_array", "set_array_const", "make_ptr"}
                  => Aborted
    /\ IsArray(el_op.pre) =>
           /\ IsArray(el) /\ ~IsPtr(el)
           /\ el_op.name \in {"make_ptr", "make_array"} => Aborted

\* make_array was called on a const pointer of a named type
C14_Witness ==
    /\ el_op.name = "make_array"
    /\ el_op.pre.tag = "ConstPtr" /\ el_op.pre.s \in ElTypeNames
    /\ panicked

\* C15: on a Void element each of make_array, make_ptr, make_const and
\* set_type aborts, and a Void element is Void after every call.
C15_VoidCallsAbort ==
    el_op.pre = Void =>
        /\ el = Void
        /\ el_op.name \in {"make_array", "make_ptr", "make_const", "set_type"}
               => Aborted

\* C15, amended: on a Void element make_array and set_type (and make_void,
\* set_array_const) abort; make_ptr returns and leaves a mutable pointer of
\* the given depth with no type name, make_const returns and leaves a Const
\* with no type name.
C15_VoidArrayAndTypeAbort ==
    el_op.pre = Void =>
        /\ el_op.name \in {"make_array", "set_type", "make_void",
                           "set_array_const"} => Aborted
        /\ el_op.name = "make_ptr" =>
               ~panicked /\ el = MutPtr(NullStr, el_op.arg)
        /\ el_op.name = "make_const" => ~panicked /\ el = Const(NullStr)

\* make_ptr was called on a Void element and left a pointer
C15_Witness ==
    /\ el_op.pre = Void
    /\ el_op.name = "make_ptr"
    /\ IsPtr(el)

\* C16: make_const turns Var(T) into Const(T), leaves Const(T) as it is,
\* turns Unknown into a Const with no type name yet, and returns on a const
\* array, leaving it as it is.
C16_MakeConstKeepsConstArray ==
    el_op.name = "make_const" =>
        /\ el_op.pre.tag = "Var" => ~panicked /\ el = Const(el_op.pre.s)
        /\ el_op.pre.tag = "Const" => Kept
        /\ el_op.pre = Unknown => ~panicked /\ el = Const(NullStr)
        /\ el_op.pre.tag \in {"ConstArray", "ConstArrayEnum"} => Kept

\* C16, amended: make_const turns Var(T) into Const(T), leaves Const(T) as it
\* is, turns Unknown into a Const with no type name yet, and aborts on every
\* array, const or mutable, and on every pointer.
C16_MakeConstAbortsOnArrays ==
    el_op.name = "make_const" =>
        /\ el_op.pre.tag = "Var" => ~panicked /\ el = Const(el_op.pre.s)
        /\ el_op.pre.tag = "Const" => Kept
        /\ el_op.pre = Unknown => ~panicked /\ el = Const(NullStr)
        /\ (IsArray(el_op.pre) \/ IsPtr(el_op.pre)) => Aborted

\* make_const was called on a const array
C16_Witness ==
    /\ el_op.name = "make_const"
    /\ el_op.pre.tag \in {"ConstArray", "ConstArrayEnum"}
    /\ panicked

\* C17: an element begins Unknown; set_type(T) makes Unknown Var(T) and, on a
\* typed form, replaces the type name only; make_ptr(n) makes Var(T)
\* MutPtr(T, n) and Const(T) ConstPtr(T, n); make_array(s) with s > 0 makes
\* Var(T) MutArray(T, s) and Const(T) ConstArray(T, s).
C17_Composition ==
    /\ el_op.name = "none" => el = Unknown
    /\ el_op.name = "set_type" =>
           /\ el_op.pre = Unknown => ~panicked /\ el = Var(el_op.arg)
           /\ IsTyped(el_op.pre) =>
                  /\ ~panicked
                  /\ el.tag = el_op.pre.tag /\ el.s = el_op.arg
                  /\ DOMAIN el = DOMAIN el_op.pre
                  /\ \A f \in DOMAIN el \ {"s"} : el[f] = el_op.pre[f]
    /\ el_op.name = "make_ptr" =>
           /\ el_op.pre.tag = "Var" =>
                  ~panicked /\ el = MutPtr(el_op.pre.s, el_op.arg)
           /\ el_op.pre.tag = "Const" =>
                  ~panicked /\ el = ConstPtr(el_op.pre.s, el_op.arg)
    /\ (el_op.name = "make_array" /\ el_op.arg > 0) =>
           /\ el_op.pre.tag = "Var" =>
                  ~panicked /\ el = MutArray(el_op.pre.s, el_op.arg)
           /\ el_op.pre.tag = "Const" =>
                  ~panicked /\ el = ConstArray(el_op.pre.s, el_op.arg)

\* a const element of a named type was made an array of a positive size
C17_Witness ==
    /\ el_op.name = "make_array" /\ el_op.arg > 0
    /\ el_op.pre.tag = "Const" /\ el_op.pre.s \in ElTypeNames
    /\ el.tag = "ConstArray"

\* C18: make_array leaves an enum-sized array exactly when it is given no
\* integer size (size 0) and a fixed-size array of that size otherwise;
\* set_array_const returns only on an enum-sized array, where it sets the
\* sizing constant and leaves type name and constness, and aborts on a
\* fixed-size array and on every form that is no array.
C18_EnumSizedArrays ==
    /\ (el_op.name = "make_array" /\ ~panicked) =>
           /\ el_op.arg = 0 <=> IsEnumArray(el)
           /\ el_op.arg # 0 <=> (IsFixedArray(el) /\ el.size = el_op.arg)
    /\ el_op.name = "set_array_const" =>
           IF IsEnumArray(el_op.pre)
           THEN /\ ~panicked
                /\ el.tag = el_op.pre.tag /\ el.s = el_op.pre.s
                /\ el.e = el_op.arg
           ELSE Aborted

\* the sizing constant of a const enum-sized array was set a second time
C18_Witness ==
    /\ el_op.name = "set_array_const" /\ ~panicked
    /\ el_op.pre.tag = "ConstArrayEnum"
    /\ el_op.pre.e \in SizeEnums /\ el.e # el_op.pre.e

(***************************************************************************)
(* Claims about VkMember.                                                  *)
(***************************************************************************)
\* C19: set_name on a member whose name is unset returns and stores the
\* given name; set_name on a member that has a name aborts and leaves that
\* name (registry/mod.rs and lib.rs alike).
C19_NameSetOnce ==
    /\ member_op.name = "set_name" =>
           IF member_op.pre = NullStr
           THEN ~member_op.panic /\ member = member_op.arg
           ELSE member_op.panic /\ member = member_op.pre
    /\ member_op.name = "lib_set_name" =>
           IF member_op.lib_pre = Null
           THEN ~member_op.panic /\ lib_member = member_op.arg
           ELSE member_op.panic /\ lib_member = member_op.lib_pre

\* C19 for the VkMember of registry/mod.rs alone
C19_RegistryMemberNameSetOnce ==
    member_op.name = "set_name" =>
        IF member_op.pre = NullStr
        THEN ~member_op.panic /\ member = member_op.arg
        ELSE member_op.panic /\ member = member_op.pre

(***************************************************************************)
(* Claims about push_command and parameters that were never typed.         *)
(***************************************************************************)
\* an Unknown entry stands before some entry that is not Unknown
HasMidListUnknown(params) ==
    \E i, j \in 1..Len(params) :
        i < j /\ params[i].typ = Unknown /\ params[j].typ # Unknown

\* C20: push_command of a command whose parameter list has a mid-list Unknown
\* aborts, and no stored command has a mid-list Unknown.
C20_MidListUnknownAborts ==
    /\ (reg_op.name = "push_command" /\ reg_op.arg # None
            /\ HasMidListUnknown(reg_op.arg.val.params)) =>
           panicked /\ commands = reg_op.pre.commands
    /\ \A e \in commands : ~HasMidListUnknown(e.val.params)

\* C20, amended: push_command of a command whose parameter list has a
\* mid-list Unknown does not abort: it returns success and stores the command
\* with the trailing Unknown entries removed and the mid-list Unknown kept in
\* its place.
C20_MidListUnknownStored ==
    (reg_op.name = "push_command" /\ reg_op.arg # None
         /\ HasMidListUnknown(reg_op.arg.val.params)) =>
        /\ ~panicked /\ reg_op.ret = "Ok"
        /\ \E e \in commands :
               /\ e.key = reg_op.arg.val.name
               /\ e.val.params = StripTrailingUnknown(reg_op.arg.val.params)
               /\ HasMidListUnknown(e.val.params)

\* a command whose list is Unknown, typed, Unknown was pushed
C20_Witness ==
    /\ reg_op.name = "push_command" /\ reg_op.arg # None
    /\ LET ps == reg_op.arg.val.params IN
           /\ Len(ps) = 3
           /\ ps[1].typ = Unknown /\ ps[2].typ # Unknown /\ ps[3].typ = Unknown
    /\ \E e \in commands : e.key = reg_op.arg.val.name /\ Len(e.val.params) = 2

\* every entry of the list is Unknown (the empty list included)
AllUnknown(params) == \A i \in 1..Len(params) : params[i].typ = Unknown

\* C21: push_command never aborts; given a command whose parameter list is
\* empty or holds Unknown entries only it returns, and the command is either
\* dropped or stored with an empty parameter list.
C21_PushCommandNeverAborts ==
    reg_op.name = "push_command" =>
        /\ ~panicked
        /\ (reg_op.arg # None /\ AllUnknown(reg_op.arg.val.params)) =>
               \/ commands = reg_op.pre.commands
               \/ \E e \in commands :
                      e.key = reg_op.arg.val.name /\ e.val.params = <<>>

InMask(self) ==
    /\ self.flags \in FlagInts
    /\ \A i \in 0..(FlagBits - 1) :
           Bit(self.flags, i) = 1 => Bit(all_flags, i) = 1

\* C23: empty(), all() and every value built by from_flags,
\* from_flags_truncate and the operators |, &, ^, - and ! have no bit set
\* outside $all; !x holds exactly the bits of $all that x lacks, so !!x = x.
C23_ValuesWithinMask ==
    /\ InMask(empty) /\ InMask(all)
    /\ InMask(lhs) /\ InMask(rhs)
    /\ \A x \in {lhs, rhs} :
           /\ InMask(not(x))
           /\ \A i \in 0..(FlagBits - 1) :
                  Bit(not(x).flags, i) = 1 <=>
                      (Bit(all_flags, i) = 1 /\ Bit(x.flags, i) = 0)
           /\ not(not(x)) = x
    /\ flag_op.name = "not" => not(lhs) = flag_op.pre

\* the complement of a value that is neither empty nor all, in a type whose
\* $all leaves a bit of the integer out
C23_Witness ==
    /\ flag_op.name = "not"
    /\ flag_op.pre # empty /\ flag_op.pre # all
    /\ lhs # empty
    /\ \E i \in 0..(FlagBits - 1) : Bit(all_flags, i) = 0

(***************************************************************************)
(* Further claims about VkElType.                                          *)
(***************************************************************************)
IsConstForm(e) ==
    e.tag \in {"Const", "ConstPtr", "ConstArray", "ConstArrayEnum"}

\* C24: an element that is in a const form (Const, ConstPtr, ConstArray,
\* ConstArrayEnum) is in a const form after every further call, and an
\* element that is not Unknown is not Unknown after any call.
C24_ConstnessMonotone ==
    /\ IsConstForm(el_op.pre) => IsConstForm(el)
    /\ el_op.pre # Unknown => el # Unknown

\* a const element of a named type was made a pointer
C24_Witness ==
    /\ el_op.name = "make_ptr"
    /\ el_op.pre.tag = "Const" /\ el_op.pre.s \in ElTypeNames
    /\ el.tag = "ConstPtr"

(***************************************************************************)
(* Further claims about the registry's builder operations.                 *)
(***************************************************************************)
\* C25: after any sequence of push_type calls every name in the
\* core-constants list is the key of an entry of the type map, and that entry
\* is an ApiConst.
C25_CoreConstsAreApiConstEntries ==
    \A i \in 1..Len(core_consts) :
        \E e \in types :
            e.key = core_consts[i] /\ e.val.kind = "ApiConst"

(***************************************************************************)
(* Claims about the version macros.                                       *)
(***************************************************************************)
\* major < 2^10, minor < 2^10 and patch < 2^12
InRange(in) == in[1] < 2^10 /\ in[2] < 2^10 /\ in[3] < 2^12

\* C26: on uint32_t, for major < 2^10, minor < 2^10 and patch < 2^12,
\* vk_version_major, vk_version_minor and vk_version_patch of
\* vk_make_version(major, minor, patch) are major, minor and patch.
C26_VersionRoundTrip ==
    (version_out.made /\ InRange(version_in)) =>
        /\ version_out.major # None =>
               version_out.major.val = as_uint32_t(version_in[1])
        /\ version_out.minor # None =>
               version_out.minor.val = as_uint32_t(version_in[2])
        /\ version_out.patch # None =>
               version_out.patch.val = as_uint32_t(version_in[3])

\* the largest major, minor and patch that fit were packed and all three
\* were read back
C26_Witness ==
    /\ version_out.made
    /\ version_in = <<2^10 - 1, 2^10 - 1, 2^12 - 1>>
    /\ version_out.major # None
    /\ version_out.minor # None
    /\ version_out.patch # None

====
